---- MODULE Spec2Model ----
(***************************************************************************)
(* Model of the Flipper Monitor telemetry bridge (macOS build):           *)
(*   main.rs         link session, transport loop, local-only demo        *)
(*   system_info.rs  SystemInfo::get_system_info and its scaling helpers  *)
(*   gpu_info_macos.rs  GpuInfo::get_gpu_info and its text extractors     *)
(* A u64 byte quantity is held as its base-1024 digits, least significant *)
(* first, because TLC integers are 32 bits wide and the quantities of     *)
(* interest reach 2^64 - 1.                                                *)
(***************************************************************************)
EXTENDS Integers, Sequences, FiniteSets, TLC

VARIABLES
    pc,              \* position of main / monitor_and_send_loop / show_system_info_demo
    killed,          \* the process was ended by the stop signal
    result,          \* what main returned: "none", "Ok" or "Err"
    peripherals,     \* main.rs:45  the list central.peripherals() returned
    idx,             \* main.rs:63  position of the for loop in peripherals
    listed,          \* main.rs:71  how many names were printed
    flipper,         \* main.rs:62  Option<Peripheral>
    characteristics, \* main.rs:90  the set discover_services made available
    demo_site,       \* which call of show_system_info_demo is running
    demo_i,          \* main.rs:176 loop variable i
    iteration,       \* main.rs:128
    calls,           \* the adapter / peripheral calls made so far, with outcome
    writes,          \* number of peripheral.write calls made
    failedAt,        \* iteration of the most recent write that returned Err
    samples,         \* number of get_system_info calls made
    sleeps,          \* number of 2 s delays taken (main.rs:163, main.rs:194)
    sys,             \* the counters as last refreshed, and what the GPU query gave
    loc,             \* locals of get_system_info for the sample in `info`
    info             \* the SystemInfo of the current tick / reading

vars == <<pc, killed, result, peripherals, idx, listed, flipper, characteristics,
          demo_site, demo_i, iteration, calls, writes, failedAt, samples,
          sleeps, sys, loc, info>>

linkVars == <<peripherals, idx, listed, flipper, characteristics, demo_site,
              demo_i, iteration, calls, writes, failedAt, samples, sleeps>>

-----------------------------------------------------------------------------
(* Bounds of the model                                                     *)

MaxPeripherals == 3     \* longest discovery list
MaxTicks == 5           \* transport-loop iterations explored
MaxMant == 2            \* multiples m * 1024^k explored around each power

-----------------------------------------------------------------------------
(* u64 arithmetic on base-1024 digit sequences                             *)

Base == 1024
U64Bits == 64
\* the base-1024 digits are 10 bits wide
DigitBits == CHOOSE b \in 1..U64Bits : 2 ^ b = Base
NLimbs == (U64Bits + DigitBits - 1) \div DigitBits
TopRadix == 2 ^ (U64Bits - DigitBits * (NLimbs - 1))

\* a small natural number (< 2^31) as a u64
Big(n) ==
    [k \in 1..NLimbs |->
        IF k = 1 THEN n % Base
        ELSE IF k = 2 THEN (n \div Base) % Base
        ELSE IF k = 3 THEN (n \div (Base * Base)) % Base
        ELSE IF k = 4 THEN n \div (Base * Base * Base)
        ELSE 0]

Zero == Big(0)

\* comparison of two digit sequences of the same length: -1, 0 or 1
RECURSIVE CmpFrom(_, _, _)
CmpFrom(a, b, k) ==
    IF k = 0 THEN 0
    ELSE IF a[k] > b[k] THEN 1
    ELSE IF a[k] < b[k] THEN -1
    ELSE CmpFrom(a, b, k - 1)

Cmp(a, b) == CmpFrom(a, b, Len(a))
GT(a, b) == Cmp(a, b) = 1
LE(a, b) == Cmp(a, b) # 1

\* a * n for a small n, one digit longer than a, nothing lost
RECURSIVE MulFrom(_, _, _, _)
MulFrom(a, n, k, carry) ==
    IF k > Len(a) THEN <<carry>>
    ELSE LET t == a[k] * n + carry
         IN  <<t % Base>> \o MulFrom(a, n, k + 1, t \div Base)

MulW(a, n) == MulFrom(a, n, 1, 0)

\* a + b for two digit sequences of the same length, one digit longer
RECURSIVE AddFrom(_, _, _, _)
AddFrom(a, b, k, carry) ==
    IF k > Len(a) THEN <<carry>>
    ELSE LET t == a[k] + b[k] + carry
         IN  <<t % Base>> \o AddFrom(a, b, k + 1, t \div Base)

AddW(a, b) == AddFrom(a, b, 1, 0)

\* a with its k lowest digits dropped (a / 1024^k), same length
ShrW(a, k) == [j \in 1..Len(a) |-> IF j + k <= Len(a) THEN a[j + k] ELSE 0]

\* a digit sequence extended with zero digits to length n
Pad(a, n) == [j \in 1..n |-> IF j <= Len(a) THEN a[j] ELSE 0]

\* the low 64 bits of a digit sequence
Wrap64(w) ==
    [k \in 1..NLimbs |-> IF k = NLimbs THEN w[k] % TopRadix ELSE w[k]]

U64Max == [k \in 1..NLimbs |-> IF k = NLimbs THEN TopRadix - 1 ELSE Base - 1]

\* u64::pow(base, exp)
RECURSIVE pow(_, _)
pow(base, exp) ==
    IF exp = 0 THEN Big(1) ELSE Wrap64(MulW(pow(base, exp - 1), base))

\* num / divisor for a divisor that is a power of 1024: a digit shift
Div(num, divisor) ==
    LET e == CHOOSE k \in 0..(NLimbs - 1) : divisor = pow(Base, k)
    IN  ShrW(num, e)

\* AsU16 as it would be if the wire field were one byte wide
AsU16_Byte(x) == x[1] % 256

\* x as u16 / x as u8 for a u64 x: the low bits
AsU16(x) == (x[1] + Base * x[2]) % 65536
AsU8(x) == x[1] % 256

\* x - 1 and x + 1 for a u64 x (used to build inputs next to a power of 1024)
RECURSIVE PredFrom(_, _)
PredFrom(a, k) ==
    IF k > Len(a) THEN a
    ELSE IF a[k] > 0 THEN [a EXCEPT ![k] = a[k] - 1]
    ELSE PredFrom([a EXCEPT ![k] = Base - 1], k + 1)

Pred(a) == PredFrom(a, 1)
Succ(a) == Wrap64(AddW(a, Big(1)))

-----------------------------------------------------------------------------
(* Text handling used by gpu_info_macos.rs: a text is the sequence of its  *)
(* characters, the output of a tool is the sequence of its lines           *)

DigitChars == <<"0", "1", "2", "3", "4", "5", "6", "7", "8", "9">>

IsDigit(c) == \E d \in 1..Len(DigitChars) : DigitChars[d] = c

DigitValue(c) == (CHOOSE d \in 1..Len(DigitChars) : DigitChars[d] = c) - 1

\* the characters char::is_whitespace accepts, of those the tools print
Spaces == {" ", "\t", "\n"}
IsSpace(c) == c \in Spaces

\* str::contains
contains(hay, needle) ==
    \E k \in 0..(Len(hay) - Len(needle)) :
        SubSeq(hay, k + 1, k + Len(needle)) = needle

\* s with its leading characters that are in drop removed
RECURSIVE TrimStartBy(_, _)
TrimStartBy(s, drop) ==
    IF s # <<>> /\ s[1] \in drop THEN TrimStartBy(Tail(s), drop) ELSE s

\* s with its trailing characters that are in drop removed
RECURSIVE TrimEndBy(_, _)
TrimEndBy(s, drop) ==
    IF s # <<>> /\ s[Len(s)] \in drop
    THEN TrimEndBy(SubSeq(s, 1, Len(s) - 1), drop)
    ELSE s

\* str::trim
trim(s) == TrimEndBy(TrimStartBy(s, Spaces), Spaces)

\* str::trim_matches(|c| c == '"' || c == ',')
trim_matches(s) == TrimEndBy(TrimStartBy(s, {"\"", ","}), {"\"", ","})

\* str::trim_end_matches('%')
trim_end_matches(s) == TrimEndBy(s, {"%"})

\* str::split(sep): the pieces between the occurrences of the character sep
RECURSIVE split(_, _)
split(s, sep) ==
    IF \E k \in 1..Len(s) : s[k] = sep
    THEN LET k == CHOOSE i \in 1..Len(s) :
                      s[i] = sep /\ \A h \in 1..(i - 1) : s[h] # sep
         IN  <<SubSeq(s, 1, k - 1)>> \o split(SubSeq(s, k + 1, Len(s)), sep)
    ELSE <<s>>

\* Iterator::nth(n), counted from 0
nth(pieces, n) == IF n + 1 <= Len(pieces) THEN <<pieces[n + 1]>> ELSE <<>>

\* str::split_whitespace: the maximal runs of characters that are not spaces
RECURSIVE split_whitespace(_)
split_whitespace(s) ==
    LET t == TrimStartBy(s, Spaces)
    IN  IF t = <<>> THEN <<>>
        ELSE LET n == IF \E k \in 1..Len(t) : IsSpace(t[k])
                      THEN (CHOOSE i \in 1..Len(t) :
                               IsSpace(t[i]) /\ \A h \in 1..(i - 1) : ~IsSpace(t[h])) - 1
                      ELSE Len(t)
             IN  <<SubSeq(t, 1, n)>> \o split_whitespace(SubSeq(t, n + 1, Len(t)))

\* the value of a digit string, as a digit sequence of NLimbs + 1 digits, or
\* <<>> once it no longer fits in a u64
RECURSIVE DigitsValue(_, _)
DigitsValue(s, acc) ==
    IF s = <<>> THEN <<acc>>
    ELSE LET next == AddW(Pad(MulW(acc, 10), NLimbs + 1), Pad(Big(DigitValue(s[1])), NLimbs + 1))
             fits == LE(Pad(next, NLimbs + 2), Pad(U64Max, NLimbs + 2))
         IN  IF fits THEN DigitsValue(Tail(s), Pad(next, NLimbs)) ELSE <<>>

\* str::parse::<u64>: an optional '+', then one or more digits; Err on
\* anything else and on a value above u64::MAX.  <<>> is Err, <<v>> is Ok(v)
parse_u64(s) ==
    LET body == IF s # <<>> /\ s[1] = "+" THEN Tail(s) ELSE s
    IN  IF body = <<>> \/ \E k \in 1..Len(body) : ~IsDigit(body[k])
        THEN <<>>
        ELSE DigitsValue(body, Zero)

\* str::parse::<f64> followed by `as u64`, for decimal numerals without an
\* exponent: an optional sign, digits, an optional point and digits, with a
\* digit on at least one side of the point.  The cast truncates toward zero
\* and saturates: a negative value gives 0, a value above u64::MAX gives
\* u64::MAX.  <<>> is a failed parse
parse_f64_as_u64(s) ==
    LET neg == s # <<>> /\ s[1] = "-"
        body == IF s # <<>> /\ s[1] \in {"+", "-"} THEN Tail(s) ELSE s
        parts == split(body, ".")
        int == parts[1]
        frac == IF Len(parts) = 2 THEN parts[2] ELSE <<>>
        wellFormed ==
            /\ Len(parts) <= 2
            /\ \A k \in 1..Len(int) : IsDigit(int[k])
            /\ \A k \in 1..Len(frac) : IsDigit(frac[k])
            /\ Len(int) + Len(frac) >= 1
    IN  IF ~wellFormed THEN <<>>
        ELSE IF neg THEN <<Zero>>
        ELSE LET v == DigitsValue(int, Zero)
             IN  IF v = <<>> THEN <<U64Max>> ELSE v

\* a * n in u64: the low 64 bits, and whether the product overflowed
mul_u64(a, n) ==
    LET wide == MulW(a, n)
    IN  [value |-> Wrap64(wide),
         overflow |-> GT(wide, Pad(U64Max, Len(wide)))]

-----------------------------------------------------------------------------
(* gpu_info_macos.rs.  `tools` is what the external commands do when they  *)
(* are run: for each command <<>> if it cannot be run (Command::output     *)
(* returns Err), else <<stdout>>.  Option values are <<>> and <<x>>.        *)

W_Apple == <<"A", "p", "p", "l", "e">>
W_VRAM == <<"V", "R", "A", "M">>
W_vram == <<"v", "r", "a", "m">>
W_Memory == <<"M", "e", "m", "o", "r", "y">>
W_GB == <<"G", "B">>
W_MB == <<"M", "B">>
W_GPU_active_residency == <<"G", "P", "U", " ", "a", "c", "t", "i", "v", "e", " ", "r", "e", "s", "i", "d", "e", "n", "c", "y">>
W_GPU_Active == <<"G", "P", "U", " ", "A", "c", "t", "i", "v", "e">>

\* the commands, as they appear in the record of what was run
SysctlBrand == "sysctl machdep.cpu.brand_string"
Ioreg == "ioreg"
Powermetrics == "powermetrics"
SystemProfiler == "system_profiler"
SysctlMemsize == "sysctl hw.memsize"

GpuInfo(gpu_usage, vram_max, vram_used) ==
    [gpu_usage |-> gpu_usage, vram_max |-> vram_max, vram_used |-> vram_used]

\* Option::unwrap_or
unwrap_or(opt, default) == IF opt = <<>> THEN default ELSE opt[1]

\* how an evaluation ends: it returns `value`, or it panics on an arithmetic
\* overflow (builds with overflow checks)
Returns(value) == [panic |-> FALSE, value |-> value]
Panics == [panic |-> TRUE, value |-> <<>>]

\* value * 1024 * ... * 1024 (k factors) as the extractors write it: with
\* overflow checks an overflowing product panics, without them it wraps
RECURSIVE times_1024(_, _, _)
times_1024(value, k, overflowed) ==
    IF k = 0
    THEN (IF overflowed THEN {Panics, Returns(<<value>>)} ELSE {Returns(<<value>>)})
    ELSE LET p == mul_u64(value, Base)
         IN  times_1024(p.value, k - 1, overflowed \/ p.overflow)

\* gpu_info_macos.rs:106
IsIoregCandidate(line) == contains(line, W_VRAM) \/ contains(line, W_vram)

\* gpu_info_macos.rs:109-111: the number a candidate line yields, if any
IoregLineValue(line) ==
    LET value_str == nth(split(line, "="), 1)
    IN  IF value_str = <<>> THEN <<>>
        ELSE parse_u64(trim_matches(trim(value_str[1])))

\* extract_vram_from_ioreg as it would be if the first candidate line that
\* does not parse ended the scan
RECURSIVE extract_vram_from_ioreg_GiveUp(_)
extract_vram_from_ioreg_GiveUp(output) ==
    IF output = <<>> THEN {Returns(<<>>)}
    ELSE IF IsIoregCandidate(Head(output))
    THEN LET value == IoregLineValue(Head(output))
         IN  IF value # <<>> THEN times_1024(value[1], 2, FALSE)
             ELSE {Returns(<<>>)}
    ELSE extract_vram_from_ioreg_GiveUp(Tail(output))

RECURSIVE extract_vram_from_ioreg(_)
extract_vram_from_ioreg(output) ==
    IF output = <<>> THEN {Returns(<<>>)}
    ELSE IF IsIoregCandidate(Head(output))
            /\ IoregLineValue(Head(output)) # <<>>
    THEN times_1024(IoregLineValue(Head(output))[1], 2, FALSE)
    ELSE extract_vram_from_ioreg(Tail(output))

\* gpu_info_macos.rs:148
IsPowermetricsCandidate(line) ==
    contains(line, W_GPU_active_residency) \/ contains(line, W_GPU_Active)

\* gpu_info_macos.rs:150-153
PowermetricsLineValue(line) ==
    LET percent_str == nth(split(line, ":"), 1)
    IN  IF percent_str = <<>> THEN <<>>
        ELSE parse_f64_as_u64(trim_end_matches(trim(percent_str[1])))

RECURSIVE extract_gpu_usage_from_powermetrics(_)
extract_gpu_usage_from_powermetrics(output) ==
    IF output = <<>> THEN <<>>
    ELSE IF IsPowermetricsCandidate(Head(output))
            /\ PowermetricsLineValue(Head(output)) # <<>>
    THEN PowermetricsLineValue(Head(output))
    ELSE extract_gpu_usage_from_powermetrics(Tail(output))

\* gpu_info_macos.rs:183
IsProfilerCandidate(line) == contains(line, W_VRAM) \/ contains(line, W_Memory)

\* gpu_info_macos.rs:186-196: the words of a line from position i on; the
\* first word with a unit suffix whose predecessor parses gives the number and
\* how many factors of 1024 convert it to bytes
RECURSIVE ProfilerWordsFrom(_, _)
ProfilerWordsFrom(words, i) ==
    IF i > Len(words) THEN <<>>
    ELSE LET word == words[i]
             before == IF i > 1 THEN parse_u64(words[i - 1]) ELSE <<>>
         IN  IF contains(word, W_GB) /\ i > 1
             THEN (IF before # <<>> THEN <<[value |-> before[1], factors |-> 3]>>
                   ELSE ProfilerWordsFrom(words, i + 1))
             ELSE IF contains(word, W_MB) /\ i > 1
             THEN (IF before # <<>> THEN <<[value |-> before[1], factors |-> 2]>>
                   ELSE ProfilerWordsFrom(words, i + 1))
             ELSE ProfilerWordsFrom(words, i + 1)

ProfilerLineValue(line) == ProfilerWordsFrom(split_whitespace(line), 1)

RECURSIVE extract_vram_from_system_profiler(_)
extract_vram_from_system_profiler(output) ==
    IF output = <<>> THEN {Returns(<<>>)}
    ELSE IF IsProfilerCandidate(Head(output))
            /\ ProfilerLineValue(Head(output)) # <<>>
    THEN LET found == ProfilerLineValue(Head(output))[1]
         IN  times_1024(found.value, found.factors, FALSE)
    ELSE extract_vram_from_system_profiler(Tail(output))

\* gpu_info_macos.rs:27-38
is_apple_silicon(tools) ==
    IF tools.brand # <<>> THEN contains(tools.brand[1], W_Apple) ELSE FALSE

\* parse_ioreg_gpu as it would be if it reported all of the VRAM as used
parse_ioreg_gpu_AllUsed(tools) ==
    IF tools.ioreg = <<>> THEN {Returns(<<>>)}
    ELSE { IF vram_max.panic THEN Panics
           ELSE Returns(<<GpuInfo(Zero, unwrap_or(vram_max.value, Zero),
                                  unwrap_or(vram_max.value, Zero))>>) :
           vram_max \in extract_vram_from_ioreg(tools.ioreg[1]) }

\* gpu_info_macos.rs:76-100
parse_ioreg_gpu(tools) ==
    IF tools.ioreg = <<>> THEN {Returns(<<>>)}
    ELSE { IF vram_max.panic THEN Panics
           ELSE Returns(<<GpuInfo(Zero, unwrap_or(vram_max.value, Zero), Zero)>>) :
           vram_max \in extract_vram_from_ioreg(tools.ioreg[1]) }

\* gpu_info_macos.rs:121-143
parse_powermetrics_gpu(tools) ==
    IF tools.powermetrics = <<>> THEN {Returns(<<>>)}
    ELSE LET gpu_usage ==
                 extract_gpu_usage_from_powermetrics(tools.powermetrics[1])
         IN  {Returns(<<GpuInfo(unwrap_or(gpu_usage, Zero), Zero, Zero)>>)}

\* gpu_info_macos.rs:162-178
parse_system_profiler_gpu(tools) ==
    IF tools.system_profiler = <<>> THEN {Returns(<<>>)}
    ELSE { IF vram_max.panic THEN Panics
           ELSE Returns(<<GpuInfo(Zero, unwrap_or(vram_max.value, Zero), Zero)>>) :
           vram_max \in extract_vram_from_system_profiler(tools.system_profiler[1]) }

\* gpu_info_macos.rs:203-214
get_total_vram_apple_silicon(tools) ==
    IF tools.memsize = <<>> THEN <<>> ELSE parse_u64(trim(tools.memsize[1]))

\* the end of a GPU query: how it ended and the commands that were run
Ran(end, invoked) ==
    [panic |-> end.panic, value |-> end.value, invoked |-> invoked]

\* get_apple_silicon_gpu_info as it would be with the power sampler tried
\* before the registry
get_apple_silicon_gpu_info_PowerFirst(tools) ==
    UNION { IF b.panic \/ b.value # <<>>
            THEN {Ran(b, <<Powermetrics>>)}
            ELSE UNION { IF a.panic \/ a.value # <<>>
                         THEN {Ran(a, <<Powermetrics, Ioreg>>)}
                         ELSE {Ran(Returns(<<GpuInfo(Zero,
                                       unwrap_or(get_total_vram_apple_silicon(tools), Zero),
                                       Zero)>>),
                                   <<Powermetrics, Ioreg, SysctlMemsize>>)} :
                         a \in parse_ioreg_gpu(tools) } :
            b \in parse_powermetrics_gpu(tools) }

\* gpu_info_macos.rs:41-58
get_apple_silicon_gpu_info(tools) ==
    UNION { IF a.panic \/ a.value # <<>>
            THEN {Ran(a, <<Ioreg>>)}
            ELSE UNION { IF b.panic \/ b.value # <<>>
                         THEN {Ran(b, <<Ioreg, Powermetrics>>)}
                         ELSE {Ran(Returns(<<GpuInfo(Zero,
                                       unwrap_or(get_total_vram_apple_silicon(tools), Zero),
                                       Zero)>>),
                                   <<Ioreg, Powermetrics, SysctlMemsize>>)} :
                         b \in parse_powermetrics_gpu(tools) } :
            a \in parse_ioreg_gpu(tools) }

\* get_intel_amd_gpu_info as it would be if it gave up with None
get_intel_amd_gpu_info_NoFallback(tools) ==
    { Ran(c, <<SystemProfiler>>) : c \in parse_system_profiler_gpu(tools) }

\* gpu_info_macos.rs:61-73
get_intel_amd_gpu_info(tools) ==
    { IF c.panic \/ c.value # <<>>
      THEN Ran(c, <<SystemProfiler>>)
      ELSE Ran(Returns(<<GpuInfo(Zero, Zero, Zero)>>), <<SystemProfiler>>) :
      c \in parse_system_profiler_gpu(tools) }

\* gpu_info_macos.rs:17-24: the ways GpuInfo::get_gpu_info can end
get_gpu_info(tools) ==
    { Ran(r, <<SysctlBrand>> \o r.invoked) :
      r \in IF is_apple_silicon(tools)
            THEN get_apple_silicon_gpu_info(tools)
            ELSE get_intel_amd_gpu_info(tools) }

-----------------------------------------------------------------------------
(* system_info.rs                                                          *)

\* the characters of a unit symbol
get_unit(exp) ==
    CASE exp = 0 -> <<"B">>
      [] exp = 1 -> <<"K", "B">>
      [] exp = 2 -> <<"M", "B">>
      [] exp = 3 -> <<"G", "B">>
      [] exp = 4 -> <<"T", "B">>
      [] OTHER   -> <<"U", "B">>

\* get_exp as it would be with the comparisons not strict
get_exp_NotStrict(num, base) ==
    IF ~GT(pow(base, 4), num) THEN 4
    ELSE IF ~GT(pow(base, 3), num) THEN 3
    ELSE IF ~GT(pow(base, 2), num) THEN 2
    ELSE IF ~GT(pow(base, 1), num) THEN 1
    ELSE 0

get_exp(num, base) ==
    IF GT(num, pow(base, 4)) THEN 4
    ELSE IF GT(num, pow(base, 3)) THEN 3
    ELSE IF GT(num, pow(base, 2)) THEN 2
    ELSE IF GT(num, pow(base, 1)) THEN 1
    ELSE 0

\* helpers::pop_4u8 is not among the sources; the specification says the unit
\* is a 4-byte field, left-justified and NUL-padded
pop_4u8(bytes) == [j \in 1..4 |-> IF j <= Len(bytes) THEN bytes[j] ELSE "NUL"]

\* f64 -> u8 casts saturate
SatU8(x) == IF x < 0 THEN 0 ELSE IF x > 255 THEN 255 ELSE x

\* ((used as f64 / total as f64) * 100.0) as u8.
\* n is the truncated exact quotient 100 * used / total (capped at 255).  The
\* two u64 -> f64 conversions, the division and the multiplication each round
\* to 53 bits, so the product is within a relative 2^-50 of the exact value:
\* when the exact value is that close to n (from above) or to n + 1 (from
\* below) the truncation may give n - 1 or n + 1.  Every such outcome is kept.
\* x / x is exactly 1.0 and 1.0 * 100.0 is exactly 100.0; 0 / 0 is NaN, which
\* casts to 0, and x / 0 is infinite, which casts to 255.
F64Pct(used, total) ==
    LET W == NLimbs + 2
        u100 == Pad(MulW(used, 100), W)
        T(k) == Pad(MulW(total, k), W)
        Slack(w) == ShrW(w, 5)
        n == CHOOSE k \in 0..255 :
                 LE(T(k), u100) /\ (k = 255 \/ GT(T(k + 1), u100))
        down == LE(Pad(u100, W + 1), AddW(T(n), Slack(T(n))))
        up == LE(Pad(T(n + 1), W + 1), AddW(u100, Slack(T(n + 1))))
    IN  IF total = Zero THEN (IF used = Zero THEN {0} ELSE {255})
        ELSE IF used = total THEN {100}
        ELSE {SatU8(n)} \cup (IF down THEN {SatU8(n - 1)} ELSE {})
                        \cup (IF up THEN {SatU8(n + 1)} ELSE {})

\* SystemInfo::get_gpu_stats (macOS build) applied to the Option<GpuInfo> that
\* GpuInfo::get_gpu_info returned: the possible (gpu_usage, vram_max,
\* vram_usage, vram_unit)
get_gpu_stats(gpu_info) ==
    IF gpu_info # <<>> THEN
        LET gi == gpu_info[1] IN
        LET vram_exp == get_exp(gi.vram_max, Base)
            vram_divisor == pow(Base, vram_exp)
            vram_max == IF GT(vram_divisor, Zero)
                        THEN AsU16(Div(gi.vram_max, vram_divisor))
                        ELSE 0
            vram_usages == IF GT(gi.vram_max, Zero)
                           THEN F64Pct(gi.vram_used, gi.vram_max)
                           ELSE {0}
            vram_unit == pop_4u8(get_unit(vram_exp))
            gpu_usage == AsU8(gi.gpu_usage)
        IN  {<<gpu_usage, vram_max, vu, vram_unit>> : vu \in vram_usages}
    ELSE {<<0, 0, 0, pop_4u8(<<"G", "B">>)>>}

\* ram_usage_of as it would be with the operands of the division exchanged
ram_usage_of_Swapped(ram_used, ram_total) ==
    IF GT(ram_total, Zero) THEN F64Pct(ram_total, ram_used) ELSE {0}

\* system_info.rs:64-68: the possible values of ram_usage
ram_usage_of(ram_used, ram_total) ==
    IF GT(ram_total, Zero) THEN F64Pct(ram_used, ram_total) ELSE {0}

\* SystemInfo::get_system_info for the counters the OS reports and what the
\* external commands do: the possible outcomes, each the SystemInfo returned
\* together with the locals it was computed from, or neither when the GPU
\* query panicked
get_system_info(system) ==
    LET cpu_usage == SatU8(system.cpu_usage)
        ram_total == system.total_memory
        ram_used == system.used_memory
        ram_exp == get_exp(ram_total, Base)
        ram_divisor == pow(Base, ram_exp)
        ram_quot == Div(ram_total, ram_divisor)
        ram_max == AsU16(ram_quot)
        ram_usages == ram_usage_of(ram_used, ram_total)
        ram_unit == pop_4u8(get_unit(ram_exp))
    IN  UNION {
          IF query.panic
          THEN {[loc |-> <<>>, info |-> <<>>]}
          ELSE { [loc |-> <<[ram_total |-> ram_total, ram_used |-> ram_used,
                             ram_exp |-> ram_exp, ram_divisor |-> ram_divisor,
                             ram_quot |-> ram_quot,
                             gpu_info |-> query.value,
                             invoked |-> query.invoked]>>,
                  info |-> <<[cpu_usage |-> cpu_usage, ram_max |-> ram_max,
                              ram_usage |-> ru, ram_unit |-> ram_unit,
                              gpu_usage |-> g[1], vram_max |-> g[2],
                              vram_usage |-> g[3], vram_unit |-> g[4]]>>] :
                 ru \in ram_usages, g \in get_gpu_stats(query.value) } :
          query \in get_gpu_info(system.tools) }

-----------------------------------------------------------------------------
(* The counters the OS can report                                          *)

\* m * 1024^k
Scaled(m, k) == [j \in 1..NLimbs |-> IF j = k + 1 THEN m ELSE 0]

Gi(m) == Scaled(m, 3)

\* byte quantities at and next to the multiples m * 1024^k, the extremes of
\* u64, and the quantities around the range of the u16 wire field
RawQuantities ==
    {Zero, Big(1), U64Max, Gi(8), Gi(16)}
    \cup UNION { {Pred(Scaled(m, k)), Scaled(m, k), Succ(Scaled(m, k))} :
                 m \in 1..MaxMant, k \in 0..(NLimbs - 1) }
    \cup {Pred(Scaled(64, 5)), Scaled(64, 5), Succ(Scaled(64, 5))}

\* used memory never exceeds total memory
MemoryReadings ==
    {<<t, u>> \in RawQuantities \X RawQuantities : LE(u, t)}

CpuReadings == {0, 37, 100}

\* the decimal numeral of a u64
RECURSIVE DecimalDigits(_)
DecimalDigits(a) ==
    IF a = Zero THEN <<>>
    ELSE LET R[k \in 1..(Len(a) + 1)] ==
                 IF k = Len(a) + 1 THEN 0 ELSE (R[k + 1] * Base + a[k]) % 10
             Q == [k \in 1..Len(a) |-> (R[k + 1] * Base + a[k]) \div 10]
         IN  DecimalDigits(Q) \o <<DigitChars[R[1] + 1]>>

ToDecimal(a) == IF a = Zero THEN <<"0">> ELSE DecimalDigits(a)

\* one line `<key> <sep> <value>` of a tool's output
Line(key, sep, value) == key \o sep \o value

\* what `sysctl -n machdep.cpu.brand_string` can do
BrandOutcomes ==
    { <<>>,
      <<W_Apple \o <<" ", "M", "1", "\n">>>>,
      <<<<"I", "n", "t", "e", "l", "(", "R", ")", " ", "C", "o", "r", "e", "(", "T", "M", ")", " ", "i", "7", "\n">>>> }

\* what `ioreg -r -d 1 -w 0 -c IOAccelerator` can do
IoregOutcomes ==
    { <<>>,
      <<<<>>>>,
      <<<<Line(<<"\"", "m", "o", "d", "e", "l", "\"">>, <<" ", "=", " ">>, <<"\"", "A", "G", "X", "A", "c", "c", "e", "l", "e", "r", "a", "t", "o", "r", "\"">>)>>>>,
      <<<<Line(<<"\"", "V", "R", "A", "M", ",", "t", "o", "t", "a", "l", "M", "B", "\"">>, <<" ", "=", " ">>, <<"\"", "u", "n", "k", "n", "o", "w", "n", "\"">>)>>>>,
      <<<<Line(<<"\"", "V", "R", "A", "M", ",", "t", "o", "t", "a", "l", "M", "B", "\"">>, <<" ", "=", " ">>, ToDecimal(Big(8192)))>>>>,
      <<<<Line(<<"\"", "v", "r", "a", "m", "-", "t", "y", "p", "e", "\"">>, <<>>, <<>>),
          Line(<<"\"", "V", "R", "A", "M", ",", "t", "o", "t", "a", "l", "M", "B", "\"">>, <<" ", "=", " ">>, <<"n", "/", "a">>),
          Line(<<"\"", "v", "r", "a", "m", "\"">>, <<"=">>, <<"\"", "1", "6", "\"", ",">>),
          Line(<<"\"", "V", "R", "A", "M", ",", "t", "o", "t", "a", "l", "M", "B", "\"">>, <<" ", "=", " ">>, ToDecimal(Big(8192)))>>>>,
      <<<<Line(<<"\"", "V", "R", "A", "M", "\"">>, <<"=">>, <<"4", "=", "7">>)>>>>,
      <<<<Line(<<"\"", "V", "R", "A", "M", ",", "t", "o", "t", "a", "l", "M", "B", "\"">>, <<" ", "=", " ">>, ToDecimal(Scaled(16, 4)))>>>> }

\* what `powermetrics --samplers gpu_power -i 1000 -n 1` can do
PowermetricsOutcomes ==
    { <<>>,
      <<<<>>>>,
      <<<<Line(<<"C", "P", "U", " ", "d", "i", "e", " ", "t", "e", "m", "p", "e", "r", "a", "t", "u", "r", "e">>, <<":", " ">>, <<"4", "5", ".", "7", " ", "C">>)>>>>,
      <<<<Line(W_GPU_active_residency, <<":", " ">>, <<"4", "5", ".", "7", "%">>)>>>>,
      <<<<Line(W_GPU_Active, <<>>, <<>>),
          Line(W_GPU_active_residency, <<":", " ">>, <<"4", "5", ".", "7", " ", "%">>),
          Line(W_GPU_Active, <<":">>, <<" ", " ", "3", "0", "0", "%", "%">>),
          Line(W_GPU_active_residency, <<":", " ">>, <<"1", "2", "%">>)>>>>,
      <<<<Line(W_GPU_active_residency, <<":", " ">>, <<"-", "5", "%">>)>>>> }

\* what `system_profiler SPDisplaysDataType` can do
ProfilerOutcomes ==
    { <<>>,
      <<<<>>>>,
      <<<<Line(<<" ", " ", " ", " ", " ", " ", "C", "h", "i", "p", "s", "e", "t", " ", "M", "o", "d", "e", "l">>, <<":", " ">>, <<"I", "n", "t", "e", "l", " ", "I", "r", "i", "s">>)>>>>,
      <<<<Line(<<" ", " ", " ", " ", " ", " ", "V", "R", "A", "M", " ", "(", "T", "o", "t", "a", "l", ")">>, <<":", " ">>, <<"8", " ", "G", "B">>)>>>>,
      <<<<Line(<<" ", " ", " ", " ", " ", " ", "V", "R", "A", "M", " ", "(", "D", "y", "n", "a", "m", "i", "c", ",", " ", "M", "a", "x", ")">>, <<":", " ">>, <<"1", "5", "3", "6", " ", "M", "B">>)>>>>,
      <<<<Line(<<" ", " ", " ", " ", " ", " ", "M", "e", "m", "o", "r", "y">>, <<":", " ">>, <<"s", "h", "a", "r", "e", "d", " ", "G", "B">>),
          Line(<<" ", " ", " ", " ", " ", " ", "V", "R", "A", "M">>, <<":", " ">>, <<"G", "B">>),
          Line(<<" ", " ", " ", " ", " ", " ", "V", "R", "A", "M">>, <<":", " ">>, <<"l", "o", "t", "s", " ", "G", "B", " ", "5", "1", "2", " ", "M", "B">>),
          Line(<<" ", " ", " ", " ", " ", " ", "V", "R", "A", "M", " ", "(", "T", "o", "t", "a", "l", ")">>, <<":", " ">>, <<"8", " ", "G", "B">>)>>>>,
      <<<<Line(<<" ", " ", " ", " ", " ", " ", "D", "i", "s", "p", "l", "a", "y", " ", "M", "e", "m", "o", "r", "y">>, <<":", " ">>, <<"1", "6", " ", "G", "B">>)>>>>,
      <<<<Line(<<" ", " ", " ", " ", " ", " ", "V", "R", "A", "M", " ", "(", "T", "o", "t", "a", "l", ")">>, <<":", " ">>, ToDecimal(Scaled(16, 3)) \o <<" ", "G", "B">>)>>>> }

\* what `sysctl -n hw.memsize` can do
MemsizeOutcomes ==
    { <<>>,
      <<<<>>>>,
      <<<<"u", "n", "k", "n", "o", "w", "n", " ", "o", "i", "d", "\n">>>>,
      <<ToDecimal(Gi(16)) \o <<"\n">>>> }

Tools(brand, ioreg, powermetrics, system_profiler, memsize) ==
    [brand |-> brand, ioreg |-> ioreg, powermetrics |-> powermetrics,
     system_profiler |-> system_profiler, memsize |-> memsize]

ToolOutcomes ==
    { Tools(b, i, p, s, m) :
        b \in BrandOutcomes, i \in IoregOutcomes, p \in PowermetricsOutcomes,
        s \in ProfilerOutcomes, m \in MemsizeOutcomes }

\* an Apple-silicon host on which only the unified-memory query answers: the
\* VRAM size is then the quantity t
Unified(t) ==
    Tools(<<W_Apple \o <<" ", "M", "1", "\n">>>>, <<>>, <<>>, <<>>, <<ToDecimal(t) \o <<"\n">>>>)

\* no command can be run
NoTools == Tools(<<>>, <<>>, <<>>, <<>>, <<>>)

Reading(c, t, u, tools) ==
    [cpu_usage |-> c, total_memory |-> t, used_memory |-> u, tools |-> tools]

Readings ==
    {Reading(37, m[1], m[2], Unified(m[1])) : m \in MemoryReadings}
    \cup {Reading(c, Gi(16), Gi(8), NoTools) : c \in CpuReadings}
    \cup {Reading(37, Gi(16), Gi(8), tools) : tools \in ToolOutcomes}

\* the readings taken while the link session runs; the sizes the commands
\* print there are within the range of the conversion to bytes
LinkReadings ==
    { Reading(0, Zero, Zero, NoTools),
      Reading(37, Gi(16), Gi(8), Unified(Gi(16))),
      Reading(100, Scaled(1, 1), Scaled(1, 1),
              Tools(<<W_Apple \o <<" ", "M", "1", "\n">>>>, <<>>,
                    <<<<Line(W_GPU_active_residency, <<":", " ">>, <<"4", "5", ".", "7", "%">>)>>>>,
                    <<>>, <<>>)) }

-----------------------------------------------------------------------------
(* main.rs: what the radio can report                                      *)

PC_Mon == <<"P", "C", " ", "M", "o", "n">>
Flipper == <<"F", "l", "i", "p", "p", "e", "r">>
Unknown == <<"U", "n", "k", "n", "o", "w", "n">>

LocalNames ==
    { PC_Mon \o <<"i", "t", "o", "r">>,
      <<"M", "y", " ">> \o Flipper,
      <<"f", "l", "i", "p", "p", "e", "r", " ", "p", "c", " ", "m", "o", "n">>,
      <<"A", "i", "r", "P", "o", "d", "s">> }

\* a discovered peripheral: whether properties() succeeds, and its advertised
\* local name if it has one
Peripherals ==
    {[props |-> "Ok", local_name |-> <<n>>] : n \in LocalNames}
    \cup {[props |-> "Ok", local_name |-> <<>>],
          [props |-> "Err", local_name |-> <<>>]}

RECURSIVE ListsUpTo(_)
ListsUpTo(n) ==
    IF n = 0 THEN {<<>>}
    ELSE LET shorter == ListsUpTo(n - 1)
         IN  shorter \cup {Append(l, p) : l \in {x \in shorter : Len(x) = n - 1},
                                         p \in Peripherals}

PeripheralLists == ListsUpTo(MaxPeripherals)

FLIPPER_CHARACTERISTIC_UUID == "flipper_characteristic_uuid"
Uuids == {FLIPPER_CHARACTERISTIC_UUID, "other_uuid"}

DemoReadings == 5

-----------------------------------------------------------------------------
(* main.rs: main                                                           *)

Running == ~killed /\ pc \notin {"done", "panicked"}

\* main returns r
Return(r) == pc' = "done" /\ result' = r

\* entry of show_system_info_demo, called from `site`
EnterDemo(site) == pc' = "demo_sample" /\ demo_site' = site /\ demo_i' = 1

\* the outcomes of SystemInfo::get_system_info over a set of readings
SampleOutcomes(readings) ==
    UNION { {<<r, o>> : o \in get_system_info(r)} : r \in readings }

LinkOutcomes == SampleOutcomes(LinkReadings)

\* one SystemInfo::get_system_info call
TakeSample(outcomes) ==
    \E ro \in outcomes :
        /\ sys' = ro[1]
        /\ loc' = ro[2].loc
        /\ info' = ro[2].info
        /\ samples' = samples + 1

\* main.rs:30-31
InitBluetooth ==
    /\ pc = "start"
    /\ ~killed /\ UNCHANGED killed
    /\ \E ok \in BOOLEAN :
        IF ok THEN pc' = "scan" /\ UNCHANGED result ELSE Return("Err")
    /\ UNCHANGED <<linkVars, sys, loc, info>>

\* main.rs:39
StartScan ==
    /\ pc = "scan"
    /\ ~killed /\ UNCHANGED killed
    /\ \E ok \in BOOLEAN :
        IF ok
        THEN /\ calls' = Append(calls, "start_scan:Ok")
             /\ pc' = "scan_wait" /\ UNCHANGED result
        ELSE /\ calls' = Append(calls, "start_scan:Err")
             /\ Return("Err")
    /\ UNCHANGED <<peripherals, idx, listed, flipper, characteristics,
                   demo_site, demo_i, iteration, writes, failedAt, samples,
                   sleeps, sys, loc, info>>

\* GetPeripherals as it would be if an empty discovery list were an error
GetPeripherals_EmptyIsError ==
    /\ pc = "scan_wait"
    /\ ~killed /\ UNCHANGED killed
    /\ \/ /\ calls' = Append(calls, "peripherals:Err")
          /\ Return("Err")
          /\ UNCHANGED <<peripherals, idx, demo_site, demo_i>>
       \/ \E found \in PeripheralLists :
            IF found = <<>>
            THEN /\ calls' = calls \o <<"peripherals:Ok", "is_empty:true">>
                 /\ Return("Err")
                 /\ UNCHANGED <<peripherals, idx, demo_site, demo_i>>
            ELSE /\ calls' = calls \o <<"peripherals:Ok", "is_empty:false">>
                 /\ peripherals' = found /\ idx' = 1 /\ pc' = "filter"
                 /\ UNCHANGED <<result, demo_site, demo_i>>
    /\ UNCHANGED <<listed, flipper, characteristics, iteration, writes,
                   failedAt, samples, sleeps, sys, loc, info>>

\* main.rs:42-59
GetPeripherals ==
    /\ pc = "scan_wait"
    /\ ~killed /\ UNCHANGED killed
    /\ \/ /\ calls' = Append(calls, "peripherals:Err")
          /\ Return("Err")
          /\ UNCHANGED <<peripherals, idx, demo_site, demo_i>>
       \/ \E found \in PeripheralLists :
            /\ UNCHANGED result
            /\ IF found = <<>>
               THEN /\ calls' = calls \o <<"peripherals:Ok", "is_empty:true">>
                    /\ EnterDemo("empty")
                    /\ UNCHANGED <<peripherals, idx>>
               ELSE /\ calls' = calls \o <<"peripherals:Ok", "is_empty:false">>
                    /\ peripherals' = found /\ idx' = 1 /\ pc' = "filter"
                    /\ UNCHANGED <<demo_site, demo_i>>
    /\ UNCHANGED <<listed, flipper, characteristics, iteration, writes,
                   failedAt, samples, sleeps, sys, loc, info>>

\* main.rs:65-69
NameOf(peripheral) ==
    IF peripheral.local_name = <<>> THEN Unknown ELSE peripheral.local_name[1]

\* IsFlipper as it would be with the second marker forgotten
IsFlipper_OnlyPCMon(local_name) == contains(local_name, PC_Mon)

\* main.rs:73
IsFlipper(local_name) ==
    contains(local_name, PC_Mon) \/ contains(local_name, Flipper)

\* main.rs:63-80 and 109-112: one iteration of the for loop; leaving the
\* loop drops the list and takes the branch of `if let Some(..) = flipper`
FilterStep ==
    /\ pc = "filter"
    /\ ~killed /\ UNCHANGED killed
    /\ LET peripheral == peripherals[idx]
           local_name == NameOf(peripheral)
       IN  IF peripheral.props = "Err"
           THEN /\ calls' = Append(calls, "properties:Err")
                /\ Return("Err")
                /\ peripherals' = <<>>
                /\ UNCHANGED <<idx, listed, flipper, demo_site, demo_i>>
           ELSE /\ calls' = Append(calls, "properties:Ok")
                /\ listed' = listed + 1
                /\ UNCHANGED result
                /\ IF IsFlipper(local_name)
                   THEN /\ flipper' = <<peripheral>>
                        /\ peripherals' = <<>>
                        /\ pc' = "connect"
                        /\ UNCHANGED <<idx, demo_site, demo_i>>
                   ELSE IF idx = Len(peripherals)
                   THEN /\ peripherals' = <<>>
                        /\ EnterDemo("nomatch")
                        /\ UNCHANGED <<idx, flipper>>
                   ELSE /\ idx' = idx + 1
                        /\ UNCHANGED <<pc, peripherals, flipper, demo_site,
                                       demo_i>>
    /\ UNCHANGED <<characteristics, iteration, writes, failedAt, samples,
                   sleeps, sys, loc, info>>

\* Connect as it would be if a failed connect were tried again
Connect_Retry ==
    /\ pc = "connect"
    /\ ~killed /\ UNCHANGED killed
    /\ \E ok \in BOOLEAN :
        IF ok
        THEN /\ calls' = Append(calls, "connect:Ok")
             /\ pc' = "discover"
        ELSE /\ calls' = Append(calls, "connect:Err")
             /\ pc' = "connect"
    /\ UNCHANGED <<result, peripherals, idx, listed, flipper, characteristics,
                   demo_site, demo_i, iteration, writes, failedAt, samples,
                   sleeps, sys, loc, info>>

\* main.rs:83
Connect ==
    /\ pc = "connect"
    /\ ~killed /\ UNCHANGED killed
    /\ \E ok \in BOOLEAN :
        IF ok
        THEN /\ calls' = Append(calls, "connect:Ok")
             /\ pc' = "discover" /\ UNCHANGED result
        ELSE /\ calls' = Append(calls, "connect:Err")
             /\ Return("Err")
    /\ UNCHANGED <<peripherals, idx, listed, flipper, characteristics,
                   demo_site, demo_i, iteration, writes, failedAt, samples,
                   sleeps, sys, loc, info>>

\* main.rs:88-90
DiscoverServices ==
    /\ pc = "discover"
    /\ ~killed /\ UNCHANGED killed
    /\ \/ /\ calls' = Append(calls, "discover_services:Err")
          /\ Return("Err")
          /\ UNCHANGED characteristics
       \/ \E cs \in SUBSET Uuids :
            /\ calls' = Append(calls, "discover_services:Ok")
            /\ characteristics' = cs
            /\ pc' = "find_char" /\ UNCHANGED result
    /\ UNCHANGED <<peripherals, idx, listed, flipper, demo_site, demo_i,
                   iteration, writes, failedAt, samples, sleeps, sys, loc, info>>

\* FindCharacteristic as it would be if the loop were entered without the
\* lookup having been checked
FindCharacteristic_NoCheck ==
    /\ pc = "find_char"
    /\ ~killed /\ UNCHANGED killed
    /\ pc' = "loop_sample"
    /\ iteration' = 0
    /\ UNCHANGED <<result, peripherals, idx, listed, flipper, characteristics,
                   demo_site, demo_i, calls, writes, failedAt, samples, sleeps,
                   sys, loc, info>>

\* main.rs:91-104 and 122-128
FindCharacteristic ==
    /\ pc = "find_char"
    /\ ~killed /\ UNCHANGED killed
    /\ IF FLIPPER_CHARACTERISTIC_UUID \in characteristics
       THEN /\ pc' = "loop_sample"
            /\ iteration' = 0
            /\ UNCHANGED <<demo_site, demo_i>>
       ELSE /\ EnterDemo("nochar")
            /\ UNCHANGED iteration
    /\ UNCHANGED <<result, peripherals, idx, listed, flipper, characteristics,
                   calls, writes, failedAt, samples, sleeps, sys, loc, info>>

-----------------------------------------------------------------------------
(* main.rs: monitor_and_send_loop                                          *)

\* LoopSample as it would be if a tick could end after the sample, with no
\* write attempted
LoopSample_MaySkipWrite ==
    /\ pc = "loop_sample"
    /\ ~killed /\ UNCHANGED killed
    /\ iteration < MaxTicks
    /\ iteration' = iteration + 1
    /\ TakeSample(LinkOutcomes)
    /\ pc' \in {"loop_write", "loop_sleep"}
    /\ UNCHANGED <<result, peripherals, idx, listed, flipper, characteristics,
                   demo_site, demo_i, calls, writes, failedAt, sleeps>>

\* main.rs:131-149
LoopSample ==
    /\ pc = "loop_sample"
    /\ ~killed /\ UNCHANGED killed
    /\ iteration < MaxTicks
    /\ iteration' = iteration + 1
    /\ TakeSample(LinkOutcomes)
    /\ pc' = IF info' = <<>> THEN "panicked" ELSE "loop_write"
    /\ UNCHANGED <<result, peripherals, idx, listed, flipper, characteristics,
                   demo_site, demo_i, calls, writes, failedAt, sleeps>>

\* LoopWrite as it would be with the write error propagated by `?`
LoopWrite_Propagates ==
    /\ pc = "loop_write"
    /\ ~killed /\ UNCHANGED killed
    /\ writes' = writes + 1
    /\ \E ok \in BOOLEAN :
        IF ok
        THEN pc' = "loop_sleep" /\ UNCHANGED <<result, failedAt>>
        ELSE failedAt' = iteration /\ Return("Err")
    /\ UNCHANGED <<peripherals, idx, listed, flipper, characteristics,
                   demo_site, demo_i, iteration, calls, samples, sleeps, sys,
                   loc, info>>

\* main.rs:152-160; serde_json::to_vec cannot fail on a SystemInfo
LoopWrite ==
    /\ pc = "loop_write"
    /\ ~killed /\ UNCHANGED killed
    /\ writes' = writes + 1
    /\ \E ok \in BOOLEAN :
        failedAt' = IF ok THEN failedAt ELSE iteration
    /\ pc' = "loop_sleep"
    /\ UNCHANGED <<result, peripherals, idx, listed, flipper, characteristics,
                   demo_site, demo_i, iteration, calls, samples, sleeps, sys,
                   loc, info>>

\* main.rs:163-164
LoopSleep ==
    /\ pc = "loop_sleep"
    /\ ~killed /\ UNCHANGED killed
    /\ sleeps' = sleeps + 1
    /\ loc' = <<>> /\ info' = <<>>
    /\ pc' = "loop_sample"
    /\ UNCHANGED <<result, peripherals, idx, listed, flipper, characteristics,
                   demo_site, demo_i, iteration, calls, writes, failedAt,
                   samples, sys>>

-----------------------------------------------------------------------------
(* main.rs: show_system_info_demo, and what follows its three calls        *)

\* DemoSample as it would be with the loop bound off by one: a delay after the
\* fifth reading and a sixth reading
DemoSample_OneMore ==
    /\ pc = "demo_sample"
    /\ ~killed /\ UNCHANGED killed
    /\ TakeSample(LinkOutcomes)
    /\ IF info' = <<>>
       THEN pc' = "panicked" /\ UNCHANGED result
       ELSE IF demo_i <= DemoReadings
       THEN pc' = "demo_sleep" /\ UNCHANGED result
       ELSE IF demo_site = "nochar"
       THEN pc' = "disconnect" /\ UNCHANGED result
       ELSE Return("Ok")
    /\ UNCHANGED <<peripherals, idx, listed, flipper, characteristics,
                   demo_site, demo_i, iteration, calls, writes, failedAt,
                   sleeps>>

\* main.rs:176-192, then 193 or 198 and the return to main (56, 107, 114)
DemoSample ==
    /\ pc = "demo_sample"
    /\ ~killed /\ UNCHANGED killed
    /\ TakeSample(LinkOutcomes)
    /\ IF info' = <<>>
       THEN pc' = "panicked" /\ UNCHANGED result
       ELSE IF demo_i < DemoReadings
       THEN pc' = "demo_sleep" /\ UNCHANGED result
       ELSE IF demo_site = "nochar"
       THEN pc' = "disconnect" /\ UNCHANGED result
       ELSE Return("Ok")
    /\ UNCHANGED <<peripherals, idx, listed, flipper, characteristics,
                   demo_site, demo_i, iteration, calls, writes, failedAt,
                   sleeps>>

\* main.rs:193-196
DemoSleep ==
    /\ pc = "demo_sleep"
    /\ ~killed /\ UNCHANGED killed
    /\ sleeps' = sleeps + 1
    /\ demo_i' = demo_i + 1
    /\ loc' = <<>> /\ info' = <<>>
    /\ pc' = "demo_sample"
    /\ UNCHANGED <<result, peripherals, idx, listed, flipper, characteristics,
                   demo_site, iteration, calls, writes, failedAt, samples, sys>>

\* main.rs:107-114
Disconnect ==
    /\ pc = "disconnect"
    /\ ~killed /\ UNCHANGED killed
    /\ \E ok \in BOOLEAN :
        IF ok
        THEN calls' = Append(calls, "disconnect:Ok") /\ Return("Ok")
        ELSE calls' = Append(calls, "disconnect:Err") /\ Return("Err")
    /\ UNCHANGED <<peripherals, idx, listed, flipper, characteristics,
                   demo_site, demo_i, iteration, writes, failedAt, samples,
                   sleeps, sys, loc, info>>

\* main.rs:124: the stop signal is Ctrl+C; no handler is installed, so the
\* signal ends the process where it stands
Stop ==
    /\ Running
    /\ killed' = TRUE
    /\ UNCHANGED <<pc, result, linkVars, sys, loc, info>>

-----------------------------------------------------------------------------
(* Specifications                                                          *)

NoReading == <<>>

Init ==
    /\ pc = "start"
    /\ killed = FALSE
    /\ result = "none"
    /\ peripherals = <<>>
    /\ idx = 0
    /\ listed = 0
    /\ flipper = <<>>
    /\ characteristics = {}
    /\ demo_site = "none"
    /\ demo_i = 0
    /\ iteration = 0
    /\ calls = <<>>
    /\ writes = 0
    /\ failedAt = 0
    /\ samples = 0
    /\ sleeps = 0
    /\ sys = NoReading
    /\ loc = <<>>
    /\ info = <<>>

Next ==
    \/ InitBluetooth
    \/ StartScan
    \/ GetPeripherals
    \/ FilterStep
    \/ Connect
    \/ DiscoverServices
    \/ FindCharacteristic
    \/ LoopSample
    \/ LoopWrite
    \/ LoopSleep
    \/ DemoSample
    \/ DemoSleep
    \/ Disconnect
    \/ Stop

Spec == Init /\ [][Next]_vars

\* the steps of the program itself; the runtime resumes the single task
\* whenever the call or delay it awaits has resolved
Program ==
    \/ InitBluetooth \/ StartScan \/ GetPeripherals \/ FilterStep \/ Connect
    \/ DiscoverServices \/ FindCharacteristic \/ LoopSample \/ LoopWrite
    \/ LoopSleep \/ DemoSample \/ DemoSleep \/ Disconnect

FairSpec == Spec /\ WF_vars(Program)

\* SystemInfo::get_system_info applied to every reading of Readings
ScaleInit ==
    /\ pc = "sampler"
    /\ killed = FALSE
    /\ result = "none"
    /\ peripherals = <<>>
    /\ idx = 0
    /\ listed = 0
    /\ flipper = <<>>
    /\ characteristics = {}
    /\ demo_site = "none"
    /\ demo_i = 0
    /\ iteration = 0
    /\ calls = <<>>
    /\ writes = 0
    /\ failedAt = 0
    /\ samples = 0
    /\ sleeps = 0
    /\ sys \in Readings
    /\ loc = <<>>
    /\ info = <<>>

ScaleSample ==
    /\ pc = "sampler"
    /\ ~killed /\ UNCHANGED killed
    /\ TakeSample(SampleOutcomes({sys}))
    /\ pc' = IF info' = <<>> THEN "panicked" ELSE "sampled"
    /\ UNCHANGED <<result, peripherals, idx, listed, flipper, characteristics,
                   demo_site, demo_i, iteration, calls, writes, failedAt,
                   sleeps>>

ScaleNext == ScaleSample

SpecScale == ScaleInit /\ [][ScaleNext]_vars

-----------------------------------------------------------------------------
(* Claims                                                                  *)

LoopPcs == {"loop_sample", "loop_write", "loop_sleep"}

Count(seq, x) == Cardinality({j \in 1..Len(seq) : seq[j] = x})

\* C1: a failed write never terminates the transport loop: once a write has
\* failed main has not returned and is still inside the loop, and the three
\* ticks after the failed one each attempt their write (unless the process
\* is stopped from outside)
C1_WriteFailureNeverStops ==
    /\ [](failedAt > 0 => result = "none" /\ pc \in LoopPcs)
    /\ \A k \in 1..MaxTicks :
          (failedAt = k /\ k + 3 <= MaxTicks) ~> (writes >= k + 3 \/ killed)

C1_Witness == failedAt > 0 /\ writes >= failedAt + 3 /\ ~killed

CallsOf(op) == Count(calls, op \o ":Ok") + Count(calls, op \o ":Err")

\* every way the link can fail to be established
LinkFailure ==
    \/ demo_site \in {"empty", "nomatch", "nochar"}
    \/ Count(calls, "connect:Err") > 0
    \/ Count(calls, "discover_services:Err") > 0

\* C2: after every link-establishment failure the local-only demo has run
\* and main returns Ok
C2_LinkFailureFallsBack ==
    (pc = "done" /\ LinkFailure) => (result = "Ok" /\ samples = DemoReadings)

\* C3: a stop signal received while streaming ends with an explicit
\* disconnect call on the peripheral
C3_StopDisconnects ==
    (killed /\ pc \in LoopPcs) => CallsOf("disconnect") = 1

\* C4: when the scan discovers nothing, no connect, service discovery,
\* disconnect or write is ever attempted, main never fails, and it returns Ok
\* after the demo has taken its readings
C4_EmptyScanFallsBack ==
    Count(calls, "is_empty:true") > 0 =>
        /\ calls = <<"start_scan:Ok", "peripherals:Ok", "is_empty:true">>
        /\ writes = 0
        /\ flipper = <<>>
        /\ demo_site = "empty"
        /\ pc \in {"demo_sample", "demo_sleep", "done"}
        /\ result # "Err"
        /\ (pc = "done" => result = "Ok" /\ samples = DemoReadings)

C4_Witness ==
    Count(calls, "is_empty:true") > 0 /\ pc = "done" /\ result = "Ok"

\* a name holds a marker: some position of the name starts the marker
HasMarker(name) ==
    \E m \in {PC_Mon, Flipper} :
        \E i \in 1..Len(name) :
            /\ i + Len(m) - 1 <= Len(name)
            /\ \A j \in 1..Len(m) : name[i + j - 1] = m[j]

\* C5: a write happens, and the transport loop runs, only after a scan that
\* found a device, a name match, a successful connect, a successful service
\* discovery and a successful lookup of the characteristic, in this order
C5_WritesOnlyWhileStreaming ==
    (writes > 0 \/ pc \in LoopPcs) =>
        /\ listed >= 1
        /\ calls = <<"start_scan:Ok", "peripherals:Ok", "is_empty:false">>
                   \o [j \in 1..listed |-> "properties:Ok"]
                   \o <<"connect:Ok", "discover_services:Ok">>
        /\ flipper # <<>>
        /\ HasMarker(NameOf(flipper[1]))
        /\ FLIPPER_CHARACTERISTIC_UUID \in characteristics

C5_Witness == writes > 0 /\ failedAt = 0

\* the position of the first candidate whose name holds a marker, 0 if none
FirstMatch(list) ==
    IF \E j \in 1..Len(list) : HasMarker(NameOf(list[j]))
    THEN CHOOSE j \in 1..Len(list) :
             /\ HasMarker(NameOf(list[j]))
             /\ \A h \in 1..(j - 1) : ~HasMarker(NameOf(list[h]))
    ELSE 0

\* C6: the device selected is the first of the discovery list whose name
\* holds "PC Mon" or "Flipper"; the candidates before it were listed, none
\* after it is examined, and with no match nothing is selected and no
\* connect is attempted
C6_FirstMatchSelected ==
    /\ [][(pc = "filter" /\ pc' = "connect") =>
             /\ idx = FirstMatch(peripherals)
             /\ flipper' = <<peripherals[idx]>>
             /\ listed' = idx
             /\ Count(calls', "properties:Ok") = idx]_vars
    /\ [][(pc = "filter" /\ pc' = "demo_sample") =>
             /\ FirstMatch(peripherals) = 0
             /\ flipper' = <<>>
             /\ listed' = Len(peripherals)]_vars
    /\ [][(pc = "filter" /\ ~killed' /\ idx = FirstMatch(peripherals)
             /\ peripherals[idx].props = "Ok") => pc' = "connect"]_vars
    /\ [](pc = "filter" =>
             FirstMatch(peripherals) = 0 \/ idx <= FirstMatch(peripherals))
    /\ [](flipper = <<>> => CallsOf("connect") = 0)

C6_Witness ==
    /\ pc = "connect"
    /\ listed = 2
    /\ contains(NameOf(flipper[1]), Flipper)

\* C7: start_scan, connect and discover_services are each called at most
\* once, and a failed connect is the last thing the session does
C7_SingleAttempt ==
    /\ CallsOf("start_scan") <= 1
    /\ CallsOf("connect") <= 1
    /\ CallsOf("discover_services") <= 1
    /\ Count(calls, "connect:Err") > 0 =>
          /\ calls[Len(calls)] = "connect:Err"
          /\ writes = 0
          /\ pc = "done"

C7_Witness == Count(calls, "connect:Err") = 1 /\ pc = "done"

\* C8: below exponent 4 the scaled mantissa is strictly less than 1024
C8_MantissaBelowBase ==
    (loc # <<>> /\ loc[1].ram_exp < 4) => GT(Big(Base), loc[1].ram_quot)

\* 1024^e
PowerOf(e) == Scaled(1, e)

\* the largest e of 0..4 with raw > 1024^e, 0 if there is none
LargestExp(raw) ==
    IF \E e \in 0..4 : GT(raw, PowerOf(e))
    THEN CHOOSE e \in 0..4 :
             /\ GT(raw, PowerOf(e))
             /\ \A f \in (e + 1)..4 : ~GT(raw, PowerOf(f))
    ELSE 0

\* q * 1024^e, nothing lost
Shl(q, e) == [j \in 1..(2 * NLimbs) |->
                 IF j > e /\ j - e <= Len(q) THEN q[j - e] ELSE 0]

\* q is the integer quotient raw / 1024^e
IsQuotient(q, raw, e) ==
    LET wide == Pad(raw, 2 * NLimbs + 1)
        low == Pad(Shl(q, e), 2 * NLimbs + 1)
        high == AddW(Shl(q, e), Pad(PowerOf(e), 2 * NLimbs))
    IN  LE(low, wide) /\ GT(high, wide)

UnitSymbols ==
    <<<<"B">>, <<"K", "B">>, <<"M", "B">>, <<"G", "B">>, <<"T", "B">>>>

\* the 4-byte field holds the symbol, left-justified
HoldsSymbol(field, symbol) ==
    /\ Len(field) = 4
    /\ SubSeq(field, 1, Len(symbol)) = symbol
    /\ \A j \in (Len(symbol) + 1)..4 : field[j] \notin {"B", "K", "M", "G", "T", "U"}

\* C9: the exponent is the largest e of 0..4 with raw > 1024^e (0 if raw <=
\* 1024), the mantissa is the integer quotient raw / 1024^e and the unit is
\* the e-th of B, KB, MB, GB, TB; 0 scales to (0, 0, B) and 8 GiB to (3, 8, GB)
C9_ScaleIsLargestExponent ==
    loc # <<>> =>
        LET raw == sys.total_memory
            e == loc[1].ram_exp
            q == loc[1].ram_quot
        IN  /\ e = LargestExp(raw)
            /\ (LE(raw, Big(Base)) => e = 0)
            /\ IsQuotient(q, raw, e)
            /\ HoldsSymbol(info[1].ram_unit, UnitSymbols[e + 1])
            /\ (raw = Zero => e = 0 /\ q = Zero /\ info[1].ram_max = 0)
            /\ (raw = Gi(8) => e = 3 /\ q = Big(8) /\ info[1].ram_max = 8)

C9_Witness ==
    /\ loc # <<>>
    /\ sys.total_memory = Gi(8)
    /\ loc[1].ram_exp = 3
    /\ info[1].ram_max = 8
    /\ HoldsSymbol(info[1].ram_unit, <<"G", "B">>)

\* C10: ram_usage is within 0..100 for every reading with used <= total, and
\* it is 0 when total memory is 0
C10_RamUsageInRange ==
    info # <<>> =>
        /\ info[1].ram_usage \in 0..100
        /\ (sys.total_memory = Zero => info[1].ram_usage = 0)

C10_Witness ==
    info # <<>> /\ sys.total_memory = Zero /\ info[1].ram_usage = 0

-----------------------------------------------------------------------------
(* Claims on the GPU chain                                                 *)

\* the VRAM size Strategy A (ioreg) obtains from what the tools print, if any
IoregSize(tools) ==
    IF tools.ioreg = <<>> THEN <<>>
    ELSE LET ends == extract_vram_from_ioreg(tools.ioreg[1])
         IN  IF \E o \in ends : o.panic THEN <<>>
             ELSE (CHOOSE o \in ends : TRUE).value

\* the usage Strategy B (powermetrics) obtains from what the tools print
PowermetricsUsage(tools) ==
    IF tools.powermetrics = <<>> THEN <<>>
    ELSE extract_gpu_usage_from_powermetrics(tools.powermetrics[1])

\* C11: when the registry (Strategy A) yields a VRAM size and the power
\* sampler (Strategy B) yields a usage value, the GPU record of the sample
\* carries both: A's size and B's usage
C11_StrategiesCombine ==
    ( /\ pc = "sampled"
      /\ is_apple_silicon(sys.tools)
      /\ IoregSize(sys.tools) # <<>>
      /\ PowermetricsUsage(sys.tools) # <<>> ) =>
        /\ loc[1].gpu_info[1].vram_max = IoregSize(sys.tools)[1]
        /\ loc[1].gpu_info[1].gpu_usage = PowermetricsUsage(sys.tools)[1]
        /\ info[1].gpu_usage = AsU8(PowermetricsUsage(sys.tools)[1])

\* the VRAM size Strategy C (system_profiler) obtains from what the tools
\* print, if any
ProfilerSize(tools) ==
    IF tools.system_profiler = <<>> THEN <<>>
    ELSE LET ends == extract_vram_from_system_profiler(tools.system_profiler[1])
         IN  IF \E o \in ends : o.panic THEN <<>>
             ELSE (CHOOSE o \in ends : TRUE).value

\* a size some tool printed is too large for its conversion to bytes
SizeOverflows(tools) ==
    \/ /\ tools.ioreg # <<>>
       /\ Panics \in extract_vram_from_ioreg(tools.ioreg[1])
    \/ /\ tools.system_profiler # <<>>
       /\ Panics \in extract_vram_from_system_profiler(tools.system_profiler[1])

\* every strategy fails: each command either cannot be run or prints
\* nothing from which a value is obtained
AllStrategiesFail(tools) ==
    /\ ~SizeOverflows(tools)
    /\ IoregSize(tools) = <<>>
    /\ PowermetricsUsage(tools) = <<>>
    /\ ProfilerSize(tools) = <<>>
    /\ get_total_vram_apple_silicon(tools) = <<>>

\* C12: whatever the GPU commands do (cannot be run, fail, print text that
\* does not parse) the sample still returns a SystemInfo, and when every
\* strategy fails its GPU fields are gpu_usage 0, vram_max 0, vram_usage 0 and
\* unit "B"; the sample is lost only when a printed size overflows the
\* conversion to bytes
C12_AllFailGivesZeros ==
    /\ (pc \in {"sampled", "panicked"} /\ ~SizeOverflows(sys.tools)) =>
          pc = "sampled" /\ info # <<>>
    /\ (pc \in {"sampled", "panicked"} /\ AllStrategiesFail(sys.tools)) =>
          /\ info[1].gpu_usage = 0
          /\ info[1].vram_max = 0
          /\ info[1].vram_usage = 0
          /\ HoldsSymbol(info[1].vram_unit, <<"B">>)

C12_Witness ==
    /\ pc = "sampled"
    /\ AllStrategiesFail(sys.tools)
    /\ ~is_apple_silicon(sys.tools)
    /\ sys.tools.system_profiler = <<>>
    /\ HoldsSymbol(info[1].vram_unit, <<"B">>)

\* C13: on a unified-memory host, when neither the registry, the power
\* sampler nor the inventory tool yields a VRAM size (their command cannot be
\* run, or ran and printed no parsable VRAM field) and the direct query of
\* total system memory succeeds, the VRAM size of the sample is that total
C13_UnifiedMemoryFallback ==
    ( /\ pc = "sampled"
      /\ is_apple_silicon(sys.tools)
      /\ ~SizeOverflows(sys.tools)
      /\ IoregSize(sys.tools) = <<>>
      /\ ProfilerSize(sys.tools) = <<>>
      /\ get_total_vram_apple_silicon(sys.tools) # <<>> ) =>
        loc[1].gpu_info[1].vram_max = get_total_vram_apple_silicon(sys.tools)[1]

\* the strategies a GPU query ran, in order: the commands after the detection
\* of the host
StrategiesRun(invoked) == Tail(invoked)

IsPrefix(short, long) ==
    Len(short) <= Len(long) /\ short = SubSeq(long, 1, Len(short))

\* the command of a strategy could not be run, so the strategy returned None
CouldNotRun(tools, strategy) ==
    CASE strategy = Ioreg -> tools.ioreg = <<>>
      [] strategy = Powermetrics -> tools.powermetrics = <<>>
      [] strategy = SystemProfiler -> tools.system_profiler = <<>>
      [] strategy = SysctlMemsize -> tools.memsize = <<>>

\* the strategies run are the first ones of `chain`, each but the last of
\* them failed, and the last of them succeeded unless the chain was exhausted
FirstSuccessWins(tools, run, chain) ==
    /\ run # <<>>
    /\ IsPrefix(run, chain)
    /\ \A j \in 1..(Len(run) - 1) : CouldNotRun(tools, run[j])
    /\ Len(run) < Len(chain) => ~CouldNotRun(tools, run[Len(run)])

\* C14 as stated: the strategies are attempted in the one fixed order A
\* (registry), B (power sampler), C (inventory tool), D (unified-memory
\* query), a later one only after every earlier one has failed, and none
\* after one has succeeded
C14_FixedOrder ==
    pc = "sampled" =>
        FirstSuccessWins(sys.tools, StrategiesRun(loc[1].invoked),
                         <<Ioreg, Powermetrics, SystemProfiler, SysctlMemsize>>)

\* C14, amended: the host is detected first; on Apple silicon the strategies
\* are attempted in the order A, B, D and elsewhere C alone is attempted; a
\* later strategy of the host's list is run only after every earlier one
\* failed (its command could not be run), and none is run after one succeeded
C14_OrderPerHost ==
    pc = "sampled" =>
        /\ Head(loc[1].invoked) = SysctlBrand
        /\ FirstSuccessWins(sys.tools, StrategiesRun(loc[1].invoked),
                            IF is_apple_silicon(sys.tools)
                            THEN <<Ioreg, Powermetrics, SysctlMemsize>>
                            ELSE <<SystemProfiler>>)

C14_Witness ==
    /\ pc = "sampled"
    /\ loc[1].invoked = <<SysctlBrand, Ioreg, Powermetrics>>
    /\ sys.tools.ioreg = <<>>
    /\ sys.tools.powermetrics # <<>>

-----------------------------------------------------------------------------
(* Claims on the transport loop and the demo                               *)

\* C15: every tick of the transport loop takes exactly one sample, then makes
\* exactly one write attempt with the record just sampled, then takes the
\* delay, in this order; only the write can fail, and a tick whose sample was
\* taken always reaches its write attempt (unless the process is stopped
\* from outside)
C15_TickIsSampleWriteDelay ==
    /\ [](pc = "loop_sample" =>
            samples = iteration /\ writes = iteration /\ sleeps = iteration)
    /\ [](pc = "loop_write" =>
            /\ samples = iteration /\ writes = iteration - 1
            /\ sleeps = iteration - 1 /\ info # <<>>)
    /\ [](pc = "loop_sleep" =>
            samples = iteration /\ writes = iteration /\ sleeps = iteration - 1)
    /\ [][pc = "loop_sample" /\ ~killed' =>
            pc' = "loop_write" /\ samples' = samples + 1]_vars
    /\ [][pc = "loop_write" /\ ~killed' =>
            pc' = "loop_sleep" /\ writes' = writes + 1]_vars
    /\ [][pc = "loop_sleep" /\ ~killed' =>
            pc' = "loop_sample" /\ sleeps' = sleeps + 1]_vars
    /\ [][failedAt' # failedAt => pc = "loop_write"]_vars
    /\ [](pc \in LoopPcs => result = "none")
    /\ \A k \in 1..MaxTicks :
          (pc = "loop_write" /\ iteration = k) ~> (writes = k \/ killed)

C15_Witness ==
    /\ pc = "loop_sleep"
    /\ iteration = 2 /\ samples = 2 /\ writes = 2 /\ sleeps = 1
    /\ failedAt = 2
    /\ ~killed

-----------------------------------------------------------------------------
(* Claims on the text-scan extractors                                      *)

\* what the candidate lines of an output yield, line by line: <<>> for a line
\* that is no candidate or whose token does not parse
IoregYields(line) ==
    IF IsIoregCandidate(line) THEN IoregLineValue(line) ELSE <<>>

PowermetricsYields(line) ==
    IF IsPowermetricsCandidate(line) THEN PowermetricsLineValue(line) ELSE <<>>

ProfilerYields(line) ==
    IF IsProfilerCandidate(line) THEN ProfilerLineValue(line) ELSE <<>>

\* what the first line that yields something yields, <<>> if no line does
FirstYield(lines, Yields(_)) ==
    IF \E j \in 1..Len(lines) : Yields(lines[j]) # <<>>
    THEN Yields(lines[CHOOSE j \in 1..Len(lines) :
                          /\ Yields(lines[j]) # <<>>
                          /\ \A h \in 1..(j - 1) : Yields(lines[h]) = <<>>])
    ELSE <<>>

\* the last command a GPU query ran
LastRun(invoked) == invoked[Len(invoked)]

\* C16: each extractor scans the lines in order, skips a candidate line whose
\* number does not parse, and returns what the first candidate line that
\* parses gives (megabytes or gigabytes converted to bytes, or the usage);
\* with no such line it returns no value, which the caller turns into 0.
\* Sizes too large for the conversion to bytes are left aside.
C16_FirstParsableCandidate ==
    (pc = "sampled" /\ ~SizeOverflows(sys.tools)) =>
        LET tools == sys.tools
            gi == loc[1].gpu_info[1]
            last == LastRun(loc[1].invoked)
        IN  /\ (last = Ioreg /\ tools.ioreg # <<>>) =>
                  LET first == FirstYield(tools.ioreg[1], IoregYields)
                  IN  Pad(gi.vram_max, 2 * NLimbs) =
                          IF first = <<>> THEN Pad(Zero, 2 * NLimbs)
                          ELSE Shl(first[1], 2)
            /\ (last = Powermetrics /\ tools.powermetrics # <<>>) =>
                  LET first == FirstYield(tools.powermetrics[1], PowermetricsYields)
                  IN  gi.gpu_usage = IF first = <<>> THEN Zero ELSE first[1]
            /\ (last = SystemProfiler /\ tools.system_profiler # <<>>) =>
                  LET first == FirstYield(tools.system_profiler[1], ProfilerYields)
                  IN  Pad(gi.vram_max, 2 * NLimbs) =
                          IF first = <<>> THEN Pad(Zero, 2 * NLimbs)
                          ELSE Shl(first[1].value, first[1].factors)

C16_Witness ==
    /\ pc = "sampled"
    /\ LastRun(loc[1].invoked) = Ioreg
    /\ Len(sys.tools.ioreg[1]) = 4
    /\ IsIoregCandidate(sys.tools.ioreg[1][2])
    /\ IoregLineValue(sys.tools.ioreg[1][2]) = <<>>
    /\ loc[1].gpu_info[1].vram_max = Scaled(16, 2)

-----------------------------------------------------------------------------
(* Claims on the fallback paths of main                                    *)

\* C17: when the characteristic is absent after a successful connect and
\* service discovery, the demo runs to completion, then disconnect is called
\* exactly once and no write is ever attempted; and on every path that does
\* not stream, once main has ended a successful connect has been followed by
\* a disconnect call
C17_ConnectIsFollowedByDisconnect ==
    /\ demo_site = "nochar" =>
          /\ writes = 0
          /\ CallsOf("disconnect") <= 1
          /\ (CallsOf("disconnect") = 1 => samples = DemoReadings)
          /\ (pc = "done" => CallsOf("disconnect") = 1)
    /\ (pc = "done" /\ Count(calls, "connect:Ok") > 0) =>
          CallsOf("disconnect") = 1

DemoPcs == {"demo_sample", "demo_sleep"}

\* C18: the demo takes exactly 5 readings, with a delay after each of the
\* first 4 only, makes no write, and always ends (unless the process is
\* stopped from outside)
C18_DemoTerminates ==
    /\ [](pc = "demo_sample" =>
            /\ demo_i \in 1..DemoReadings
            /\ samples = demo_i - 1 /\ sleeps = demo_i - 1 /\ writes = 0)
    /\ [](pc = "demo_sleep" =>
            /\ demo_i \in 1..(DemoReadings - 1)
            /\ samples = demo_i /\ sleeps = demo_i - 1 /\ writes = 0)
    /\ []((demo_site # "none" /\ pc \notin DemoPcs) =>
            samples = DemoReadings /\ sleeps = DemoReadings - 1 /\ writes = 0)
    /\ (pc = "demo_sample" /\ demo_i = 1) ~> (pc \notin DemoPcs \/ killed)

C18_Witness ==
    /\ demo_site = "nomatch"
    /\ pc = "done" /\ result = "Ok"
    /\ samples = DemoReadings /\ sleeps = DemoReadings - 1
    /\ ~killed

-----------------------------------------------------------------------------
(* Claims on the wire fields                                               *)

\* 65536 * 1024^4, the least quantity whose mantissa at exponent 4 does not
\* fit the uint16 field
FirstTruncated == Scaled(2 ^ (16 - DigitBits), 5)

\* the uint16 field holds the mantissa raw / 1024^e itself
FieldIsExact(field, raw, e) == IsQuotient(Big(field), raw, e)

\* C19 for one field: exact for every raw quantity up to 1024^4, and not
\* exact only at exponent 4, from 65536 * 1024^4 on
ExactBelowTruncation(field, raw, e) ==
    /\ LE(raw, PowerOf(4)) => FieldIsExact(field, raw, e)
    /\ ~FieldIsExact(field, raw, e) => e = 4 /\ LE(FirstTruncated, raw)
    /\ LE(FirstTruncated, raw) => ~FieldIsExact(field, raw, e)

\* C19: for every raw byte quantity up to and including 1024^4 the uint16
\* wire field (ram_max, vram_max) is the integer mantissa raw / 1024^exponent
\* itself; the cast to u16 truncates only at exponent 4, for quantities of at
\* least 65536 * 1024^4
C19_MantissaFitsField ==
    pc = "sampled" =>
        /\ ExactBelowTruncation(info[1].ram_max, sys.total_memory,
                                loc[1].ram_exp)
        /\ ExactBelowTruncation(info[1].vram_max, loc[1].gpu_info[1].vram_max,
                                LargestExp(loc[1].gpu_info[1].vram_max))

C19_Witness ==
    /\ pc = "sampled"
    /\ sys.total_memory = PowerOf(4)
    /\ loc[1].gpu_info[1].vram_max = PowerOf(4)
    /\ info[1].ram_max = Base
    /\ info[1].vram_max = Base

\* C20: vram_usage is 0 in every SystemInfo produced, whatever the GPU
\* commands do: the GpuInfo of every path has vram_used 0, and with vram_max
\* 0 the percentage is not computed
C20_VramUsageIsZero ==
    info # <<>> =>
        /\ loc[1].gpu_info # <<>>
        /\ loc[1].gpu_info[1].vram_used = Zero
        /\ info[1].vram_usage = 0

C20_Witness ==
    /\ pc = "sampled"
    /\ LastRun(loc[1].invoked) = Ioreg
    /\ loc[1].gpu_info[1].vram_max = Gi(8)
    /\ info[1].vram_max = 8
    /\ info[1].vram_usage = 0

====
